---- MODULE Spec2Model ----
(***************************************************************************)
(* Model of the policy engine of policy-parser.py: classify_action,        *)
(* expand_actions, parse_policies and aggregate_to_matrix.                 *)
(* Python strings whose characters the code inspects are sequences of      *)
(* one-character strings; other strings are TLA+ strings.                  *)
(***************************************************************************)
EXTENDS Integers, Sequences, FiniteSets, TLC

VARIABLES
  cAction,   \* classify_action: the argument string (a sequence of chars)
  cResult,   \* classify_action: the returned (service, level) pair
  cPc,       \* "call" before the call, "done" after it
  pInput,    \* parse_policies: the principal_records argument
  pOut,      \* parse_policies: the returned action_details list
  pErr,      \* parse_policies: "none", or the exception it raised
  pPc,       \* "call" before the call, "done" after it
  aInput,    \* aggregate_to_matrix: the rows of action_details folded so far
  aMatrix,   \* aggregate_to_matrix: the dict matrix, key -> entry
  aOrder,    \* aggregate_to_matrix: the keys of matrix in insertion order
  aResult,   \* aggregate_to_matrix: the returned results list
  aPc,       \* "loop" while folding rows, "done" after finalization
  dDay1,     \* compare_matrices: the day1 matrix, key -> row
  dDay2,     \* compare_matrices: the day2 matrix, key -> row
  dOut,      \* compare_matrices: the drift records returned
  dPc        \* "call" before the call, "done" after it

cVars == <<cAction, cResult, cPc>>
pVars == <<pInput, pOut, pErr, pPc>>
aVars == <<aInput, aMatrix, aOrder, aResult, aPc>>

dVars == <<dDay1, dDay2, dOut, dPc>>

vars == <<cVars, pVars, aVars, dVars>>

(***************************************************************************)
(* Characters and strings                                                  *)
(***************************************************************************)

\* characters of the class [a-z0-9-] of the regex in classify_action
LowerAlnumDash ==
  {"a","b","c","d","e","f","g","h","i","j","k","l","m","n","o","p","q","r",
   "s","t","u","v","w","x","y","z","0","1","2","3","4","5","6","7","8","9","-"}

\* s starts with the char sequence p (str.startswith)
StartsWith(s, p) == Len(p) <= Len(s) /\ SubSeq(s, 1, Len(p)) = p

\* str.startswith(tuple): any of the prefixes
StartsWithAny(s, ps) == \E i \in 1..Len(ps) : StartsWith(s, ps[i])

\* index of the first element of s not in T, else Len(s) + 1
FirstNotIn(s, T) ==
  IF \A i \in 1..Len(s) : s[i] \in T THEN Len(s) + 1
  ELSE CHOOSE i \in 1..Len(s) : s[i] \notin T /\ \A j \in 1..(i-1) : s[j] \in T

\* index of the first element of s in T, else Len(s) + 1
FirstIn(s, T) ==
  IF \A i \in 1..Len(s) : s[i] \notin T THEN Len(s) + 1
  ELSE CHOOSE i \in 1..Len(s) : s[i] \in T /\ \A j \in 1..(i-1) : s[j] \notin T

\* words as char sequences
W_Star     == <<"*">>
W_Colon    == <<":">>
W_NL       == <<"\n">>
W_Get      == <<"G","e","t">>
W_Head     == <<"H","e","a","d">>
W_Read     == <<"R","e","a","d">>
W_List     == <<"L","i","s","t">>
W_Describe == <<"D","e","s","c","r","i","b","e">>
W_Create   == <<"C","r","e","a","t","e">>
W_Put      == <<"P","u","t">>
W_Delete   == <<"D","e","l","e","t","e">>
W_Update   == <<"U","p","d","a","t","e">>
W_Start    == <<"S","t","a","r","t">>
W_Stop     == <<"S","t","o","p">>
W_Invoke   == <<"I","n","v","o","k","e">>
W_Tag      == <<"T","a","g">>
W_Untag    == <<"U","n","t","a","g">>
W_PassRole == <<"P","a","s","s","R","o","l","e">>
W_Attach   == <<"A","t","t","a","c","h">>
W_Detach   == <<"D","e","t","a","c","h">>
W_CreatePolicy == <<"C","r","e","a","t","e","P","o","l","i","c","y">>
W_PutPolicy    == <<"P","u","t","P","o","l","i","c","y">>
W_SetPolicy    == <<"S","e","t","P","o","l","i","c","y">>
W_AddUserToGroup == <<"A","d","d","U","s","e","r","T","o","G","r","o","u","p">>
W_RemoveUserFromGroup ==
  <<"R","e","m","o","v","e","U","s","e","r","F","r","o","m","G","r","o","u","p">>
W_GetObject  == <<"G","e","t","O","b","j","e","c","t">>
W_ListBucket == <<"L","i","s","t","B","u","c","k","e","t">>
W_ALL_SERVICES == <<"A","L","L","_","S","E","R","V","I","C","E","S">>
W_UNKNOWN  == <<"U","N","K","N","O","W","N">>

(***************************************************************************)
(* classify_action (policy-parser.py 43-67)                                *)
(***************************************************************************)

\* re.match(r"([a-z0-9-]+):(.*)", action): the greedy class run must be
\* non-empty and be followed by ':'; '.' stops at the first newline.
\* variant without the character class: any colon after the first char
RegexMatchesNoClass(a) == \E k \in 2..Len(a) : a[k] = ":"

RegexMatches(a) ==
  LET k == FirstNotIn(a, LowerAlnumDash)
  IN  k >= 2 /\ k <= Len(a) /\ a[k] = ":"

RegexService(a) == SubSeq(a, 1, FirstNotIn(a, LowerAlnumDash) - 1)

RegexOp(a) ==
  LET rest == SubSeq(a, FirstNotIn(a, LowerAlnumDash) + 1, Len(a))
  IN  SubSeq(rest, 1, FirstIn(rest, {"\n"}) - 1)

ReadPrefixes  == <<W_Get, W_Head, W_Read>>
ListPrefixes  == <<W_List, W_Describe>>
WritePrefixes == <<W_Create, W_Put, W_Delete, W_Update, W_Start, W_Stop, W_Invoke>>
TagPrefixes   == <<W_Tag, W_Untag>>
PermPrefixes  == <<W_PassRole, W_Attach, W_Detach, W_CreatePolicy, W_PutPolicy,
                   W_SetPolicy, W_AddUserToGroup, W_RemoveUserFromGroup>>

\* variant testing the high-privilege verbs before the Write prefixes
ClassifyOpPermFirst(service, op) ==
  IF op = W_Star THEN <<service, "Admin">>
  ELSE IF StartsWithAny(op, ReadPrefixes) THEN <<service, "Read">>
  ELSE IF StartsWithAny(op, ListPrefixes) THEN <<service, "List">>
  ELSE IF StartsWithAny(op, PermPrefixes) THEN <<service, "PermissionsManagement">>
  ELSE IF StartsWithAny(op, WritePrefixes) THEN <<service, "Write">>
  ELSE IF StartsWithAny(op, TagPrefixes) THEN <<service, "Tagging">>
  ELSE <<service, "Read">>

ClassifyOp(service, op) ==
  IF op = W_Star THEN <<service, "Admin">>
  ELSE IF StartsWithAny(op, ReadPrefixes) THEN <<service, "Read">>
  ELSE IF StartsWithAny(op, ListPrefixes) THEN <<service, "List">>
  ELSE IF StartsWithAny(op, WritePrefixes) THEN <<service, "Write">>
  ELSE IF StartsWithAny(op, TagPrefixes) THEN <<service, "Tagging">>
  ELSE IF StartsWithAny(op, PermPrefixes) THEN <<service, "PermissionsManagement">>
  ELSE <<service, "Read">>

classify_action(a) ==
  IF a = W_Star THEN <<W_ALL_SERVICES, "Admin">>
  ELSE IF ~RegexMatches(a) THEN <<W_UNKNOWN, "Unknown">>
  ELSE ClassifyOp(RegexService(a), RegexOp(a))

(***************************************************************************)
(* Specification of a call of classify_action on a bounded string          *)
(***************************************************************************)

\* action strings are concatenations of at most MaxTokens of these words
Tokens == {W_Star, W_Colon, W_NL, <<"s","3">>, <<"S">>, W_GetObject, W_ListBucket, W_Create,
           W_Put, <<"P","o","l","i","c","y">>, W_PassRole, W_Tag}
MaxTokens == 4

RECURSIVE Concat(_)
Concat(ts) == IF ts = <<>> THEN <<>> ELSE Head(ts) \o Concat(Tail(ts))

ActionStrings ==
  {Concat(ts) : ts \in UNION {[1..n -> Tokens] : n \in 0..MaxTokens}}

NoResult == <<<<>>, "">>

EmptyMatrix == [k \in {} |-> k]

AIdle ==
  /\ aInput = <<>> /\ aMatrix = EmptyMatrix /\ aOrder = <<>>
  /\ aResult = <<>> /\ aPc = "idle"

DIdle ==
  /\ dDay1 = EmptyMatrix /\ dDay2 = EmptyMatrix /\ dOut = {} /\ dPc = "idle"

PIdle ==
  /\ pInput = <<>> /\ pOut = <<>> /\ pErr = "none" /\ pPc = "call"

CInit ==
  /\ cAction \in ActionStrings
  /\ cResult = NoResult
  /\ cPc = "call"
  /\ PIdle
  /\ AIdle
  /\ DIdle

Classify ==
  /\ cPc = "call"
  /\ cResult' = classify_action(cAction)
  /\ cPc' = "done"
  /\ UNCHANGED <<cAction, pVars, aVars, dVars>>

CNext == Classify

ClassifySpec == CInit /\ [][CNext]_vars

(***************************************************************************)
(* expand_actions and parse_policies (policy-parser.py 35-40, 74-111)      *)
(* A JSON value is tagged with its Python type: a str, a list (a sequence *)
(* of values) or a dict (a function from string keys to values).          *)
(***************************************************************************)

JStr(s) == [t |-> "str", v |-> s]
JList(l) == [t |-> "list", v |-> l]
JDict(f) == [t |-> "dict", v |-> f]

EmptyDict == [k \in {} |-> k]

\* dict.get(k, default)
Get(d, k, default) == IF k \in DOMAIN d.v THEN d.v[k] ELSE default

\* d[k]: KeyError when absent (see RecKeyError)
Item(d, k) == d.v[k]

IsStr(x) == x.t = "str"
IsDict(x) == x.t = "dict"
IsList(x) == x.t = "list"

\* variant that only accepts a list
expand_actions_ListOnly(action_field) ==
  IF IsList(action_field) THEN action_field.v ELSE <<>>

expand_actions(action_field) ==
  IF IsStr(action_field) THEN <<action_field>>
  ELSE IF IsList(action_field) THEN action_field.v
  ELSE <<>>

\* the characters of the action strings that occur in policy documents
ActionChars ==
  [a \in {"s3:GetObject", "s3:ListBucket", "iam:PassRole"} |->
     CASE a = "s3:GetObject"  -> <<"s","3",":">> \o W_GetObject
       [] a = "s3:ListBucket" -> <<"s","3",":">> \o W_ListBucket
       [] a = "iam:PassRole"  -> <<"i","a","m",":">> \o W_PassRole]

RECURSIVE Flatten(_)
\* the concatenation, in order, of a sequence of sequences
Flatten(ss) ==
  IF ss = <<>> THEN <<>> ELSE Head(ss) \o Flatten(Tail(ss))

\* variant that keeps a bare-string Resource uncoerced
StmtRecordsNoCoerce(principal, principal_type, pname, ptype, stmt) ==
  LET effect == Get(stmt, "Effect", JStr("Allow"))
      actions == expand_actions(Get(stmt, "Action", JList(<<>>)))
      resources == Get(stmt, "Resource", JList(<<JStr("*")>>))
  IN  [j \in 1..Len(actions) |->
        LET cl == classify_action(ActionChars[actions[j].v])
        IN  [Principal |-> principal, PrincipalType |-> principal_type,
             PolicyName |-> pname, PolicyType |-> ptype, Effect |-> effect,
             Action |-> actions[j], Service |-> cl[1], AccessLevel |-> cl[2],
             Resources |-> resources,
             Condition |-> Get(stmt, "Condition", JDict(EmptyDict))]]

\* the records of one statement (lines 90-110)
StmtRecords(principal, principal_type, pname, ptype, stmt) ==
  LET effect == Get(stmt, "Effect", JStr("Allow"))
      actions == expand_actions(Get(stmt, "Action", JList(<<>>)))
      res0 == Get(stmt, "Resource", JList(<<JStr("*")>>))
      resources == IF IsStr(res0) THEN JList(<<res0>>) ELSE res0
  IN  [j \in 1..Len(actions) |->
        LET cl == classify_action(ActionChars[actions[j].v])
        IN  [Principal |-> principal, PrincipalType |-> principal_type,
             PolicyName |-> pname, PolicyType |-> ptype, Effect |-> effect,
             Action |-> actions[j], Service |-> cl[1], AccessLevel |-> cl[2],
             Resources |-> resources,
             Condition |-> Get(stmt, "Condition", JDict(EmptyDict))]]

PyNone == [t |-> "none", v |-> "None"]

\* the records of one policy (lines 82-110)
PolicyRecords(principal, principal_type, pol) ==
  LET pname == Get(pol, "PolicyName", PyNone)
      ptype == Get(pol, "PolicyType", PyNone)
      stmts0 == Get(Get(pol, "PolicyDocument", JDict(EmptyDict)), "Statement", JList(<<>>))
      stmts == IF IsDict(stmts0) THEN <<stmts0>> ELSE stmts0.v
      F(st) == StmtRecords(principal, principal_type, pname, ptype, st)
  IN  Flatten([i \in 1..Len(stmts) |-> F(stmts[i])])

\* the records of one principal record (lines 77-110)
RecRecords(rec) ==
  LET F(pol) == PolicyRecords(Item(rec, "Principal"), Item(rec, "PrincipalType"), pol)
      pols == Get(rec, "Policies", JList(<<>>)).v
  IN  Flatten([i \in 1..Len(pols) |-> F(pols[i])])

\* rec["Principal"] and rec["PrincipalType"] raise KeyError when absent
RecKeyError(rec) ==
  "Principal" \notin DOMAIN rec.v \/ "PrincipalType" \notin DOMAIN rec.v

\* parse_policies: <<exception, action_details>>; the exception of the first
\* malformed record propagates and no list is returned
parse_policies(records) ==
  IF \E i \in 1..Len(records) : RecKeyError(records[i])
  THEN <<"KeyError", <<>>>>
  ELSE <<"none", Flatten([i \in 1..Len(records) |-> RecRecords(records[i])])>>

(***************************************************************************)
(* Specification of a call of parse_policies on bounded principal records  *)
(***************************************************************************)

CondValue == JDict([k \in {"StringEquals"} |->
                      JDict([u \in {"aws:username"} |-> JStr("alice")])])

ActionValues ==
  <<JStr("s3:GetObject"), JList(<<>>),
    JList(<<JStr("iam:PassRole"), JStr("s3:ListBucket")>>)>>
ResourceValues == <<JStr("arn1"), JList(<<JStr("arn1"), JStr("arn2")>>)>>

\* a statement: each index 0 leaves the key absent
StmtIdx == [e : 0..1, a : 0..Len(ActionValues), r : 0..Len(ResourceValues), c : 0..1]

StmtOf(ix) ==
  LET D == {k \in {"Effect", "Action", "Resource", "Condition"} :
              CASE k = "Effect" -> ix.e > 0
                [] k = "Action" -> ix.a > 0
                [] k = "Resource" -> ix.r > 0
                [] k = "Condition" -> ix.c > 0}
  IN  JDict([k \in D |-> CASE k = "Effect" -> JStr("Deny")
                           [] k = "Action" -> ActionValues[ix.a]
                           [] k = "Resource" -> ResourceValues[ix.r]
                           [] k = "Condition" -> CondValue])

MaxStmts == 2

NoStmt == [e |-> 0, a |-> 0, r |-> 0, c |-> 0]

\* the policy document: absent, without Statement, a single statement
\* object, or a list of at most MaxStmts statements
PolicyIdx ==
  {[kind |-> k, one |-> NoStmt, many |-> <<>>] : k \in {"nodoc", "nostmt"}}
  \cup {[kind |-> "dict", one |-> s, many |-> <<>>] : s \in StmtIdx}
  \cup {[kind |-> "list", one |-> NoStmt, many |-> l] :
          l \in UNION {[1..n -> StmtIdx] : n \in 0..MaxStmts}}

PolicyOf(ix) ==
  LET base == [PolicyName |-> JStr("p1"), PolicyType |-> JStr("Inline")]
      doc == CASE ix.kind = "nostmt" -> JDict(EmptyDict)
               [] ix.kind = "dict" -> JDict([Statement |-> StmtOf(ix.one)])
               [] OTHER -> JDict([Statement |->
                             JList([i \in 1..Len(ix.many) |-> StmtOf(ix.many[i])])])
  IN  IF ix.kind = "nodoc" THEN JDict(base)
      ELSE JDict(base @@ [PolicyDocument |-> doc])

\* a principal record: Principal and Policies present or absent,
\* PrincipalType absent ("") or a value
RecIdx == [pr : BOOLEAN, pt : {"", "User", "Robot"}, pols : BOOLEAN, pol : PolicyIdx]

RecOf(ix) ==
  LET D == {k \in {"Principal", "PrincipalType", "Policies"} :
              CASE k = "Principal" -> ix.pr
                [] k = "PrincipalType" -> ix.pt # ""
                [] k = "Policies" -> ix.pols}
  IN  JDict([k \in D |-> CASE k = "Principal" -> JStr("alice")
                           [] k = "PrincipalType" -> JStr(ix.pt)
                           [] k = "Policies" -> JList(<<PolicyOf(ix.pol)>>)])

CIdle ==
  /\ cAction = <<>> /\ cResult = NoResult /\ cPc = "call"

PInit ==
  /\ \E ix \in RecIdx : pInput = <<RecOf(ix)>>
  /\ pOut = <<>>
  /\ pErr = "none"
  /\ pPc = "call"
  /\ CIdle
  /\ AIdle
  /\ DIdle

Parse ==
  /\ pPc = "call"
  /\ LET r == parse_policies(pInput)
     IN  pErr' = r[1] /\ pOut' = r[2]
  /\ pPc' = "done"
  /\ UNCHANGED <<pInput, cVars, aVars, dVars>>

PNext == Parse

ParseSpec == PInit /\ [][PNext]_vars

(***************************************************************************)
(* aggregate_to_matrix (policy-parser.py 114-160)                          *)
(* A row is an ActionRecord as parse_policies produces it (the fields the  *)
(* aggregation reads).                                                     *)
(***************************************************************************)

\* the characters, in code-point order, of the strings that are sorted
CodePoints ==
  <<"0","1","2","3","4","5","6","7","8","9",
    "A","B","C","D","E","F","G","H","I","J","K","L","M","N","O","P","Q","R",
    "S","T","U","V","W","X","Y","Z","_",
    "a","b","c","d","e","f","g","h","i","j","k","l","m","n","o","p","q","r",
    "s","t","u","v","w","x","y","z">>

Ord(c) == CHOOSE i \in 1..Len(CodePoints) : CodePoints[i] = c

\* the characters of the strings that are sorted: access levels and policy names
StrChars ==
  [x \in {"Admin", "List", "PermissionsManagement", "Read", "Tagging", "Unknown",
          "Write", "p1", "p2"} |->
     CASE x = "Admin" -> <<"A","d","m","i","n">>
       [] x = "List" -> W_List
       [] x = "PermissionsManagement" ->
            <<"P","e","r","m","i","s","s","i","o","n","s",
              "M","a","n","a","g","e","m","e","n","t">>
       [] x = "Read" -> W_Read
       [] x = "Tagging" -> <<"T","a","g","g","i","n","g">>
       [] x = "Unknown" -> <<"U","n","k","n","o","w","n">>
       [] x = "Write" -> <<"W","r","i","t","e">>
       [] x = "p1" -> <<"p","1">>
       [] x = "p2" -> <<"p","2">>]

RECURSIVE SeqLt(_, _)
\* Python str comparison a < b on character sequences
SeqLt(a, b) ==
  IF a = <<>> THEN b # <<>>
  ELSE IF b = <<>> THEN FALSE
  ELSE IF Ord(Head(a)) # Ord(Head(b)) THEN Ord(Head(a)) < Ord(Head(b))
  ELSE SeqLt(Tail(a), Tail(b))

StrLt(a, b) == SeqLt(StrChars[a], StrChars[b])

RECURSIVE SortStrs(_)
\* sorted(S) for a set S of strings
SortStrs(S) ==
  IF S = {} THEN <<>>
  ELSE LET m == CHOOSE x \in S : \A y \in S \ {x} : StrLt(x, y)
       IN  <<m>> \o SortStrs(S \ {m})

RECURSIVE Join(_, _)
\* sep.join(xs)
Join(xs, sep) ==
  IF xs = <<>> THEN ""
  ELSE IF Len(xs) = 1 THEN Head(xs)
  ELSE Head(xs) \o sep \o Join(Tail(xs), sep)

SeqElems(xs) == {xs[i] : i \in 1..Len(xs)}

\* variant keyed without the principal type
RowKeyNoType(row) == <<row.Principal, row.Principal, row.Service>>

\* key = (row["Principal"], row["PrincipalType"], row["Service"])
RowKey(row) == <<row.Principal, row.PrincipalType, row.Service>>

NewEntry(row) ==
  [Principal |-> row.Principal, PrincipalType |-> row.PrincipalType,
   Service |-> row.Service, AllowedLevels |-> {}, DeniedLevels |-> {},
   Resources |-> <<>>, HasExplicitDeny |-> FALSE, Sources |-> {}]

\* variant where every row overwrites the deny flag
FoldRowResetDeny(entry, row) ==
  [entry EXCEPT
     !.AllowedLevels = IF row.Effect = JStr("Allow") THEN @ \cup {row.AccessLevel} ELSE @,
     !.DeniedLevels = IF row.Effect = JStr("Deny") THEN @ \cup {row.AccessLevel} ELSE @,
     !.HasExplicitDeny = (row.Effect = JStr("Deny")),
     !.Resources = @ \o row.Resources.v,
     !.Sources = @ \cup {row.PolicyName}]

\* variant that takes every non-Deny effect as Allow
FoldRowElseAllow(entry, row) ==
  [entry EXCEPT
     !.AllowedLevels = IF row.Effect # JStr("Deny") THEN @ \cup {row.AccessLevel} ELSE @,
     !.DeniedLevels = IF row.Effect = JStr("Deny") THEN @ \cup {row.AccessLevel} ELSE @,
     !.HasExplicitDeny = IF row.Effect = JStr("Deny") THEN TRUE ELSE @,
     !.Resources = @ \o row.Resources.v,
     !.Sources = @ \cup {row.PolicyName}]

\* variant that records the sources of Allow rows only
FoldRowAllowSources(entry, row) ==
  [entry EXCEPT
     !.AllowedLevels = IF row.Effect = JStr("Allow") THEN @ \cup {row.AccessLevel} ELSE @,
     !.DeniedLevels = IF row.Effect = JStr("Deny") THEN @ \cup {row.AccessLevel} ELSE @,
     !.HasExplicitDeny = IF row.Effect = JStr("Deny") THEN TRUE ELSE @,
     !.Resources = @ \o row.Resources.v,
     !.Sources = IF row.Effect = JStr("Allow") THEN @ \cup {row.PolicyName} ELSE @]

\* the loop body on one entry (lines 130-138)
FoldRow(entry, row) ==
  [entry EXCEPT
     !.AllowedLevels = IF row.Effect = JStr("Allow") THEN @ \cup {row.AccessLevel} ELSE @,
     !.DeniedLevels = IF row.Effect = JStr("Deny") THEN @ \cup {row.AccessLevel} ELSE @,
     !.HasExplicitDeny = IF row.Effect = JStr("Deny") THEN TRUE ELSE @,
     !.Resources = @ \o row.Resources.v,
     !.Sources = @ \cup {row.PolicyName}]

\* variant that only tests for a single resource
ScopeOfSingle(unique) ==
  IF Cardinality(unique) = 1 THEN "AllResources"
  ELSE IF JStr("*") \in unique THEN "Mixed"
  ELSE "Scoped"

\* the resource scope of the deduplicated resources (lines 144-149)
ScopeOf(unique) ==
  IF JStr("*") \in unique /\ Cardinality(unique) = 1 THEN "AllResources"
  ELSE IF JStr("*") \in unique THEN "Mixed"
  ELSE "Scoped"

\* variant that ignores the denied levels
FinalizeEntryNoDeny(entry) ==
  LET effective_levels == entry.AllowedLevels
      unique_resources == SeqElems(entry.Resources)
  IN  [Principal |-> entry.Principal, PrincipalType |-> entry.PrincipalType,
       Service |-> entry.Service,
       AccessLevels |-> IF effective_levels # {}
                        THEN Join(SortStrs(effective_levels), ",") ELSE "None",
       ResourceScope |-> ScopeOf(unique_resources),
       HasExplicitDeny |-> entry.HasExplicitDeny,
       Sources |-> Join(SortStrs({n.v : n \in entry.Sources}), ";")]

\* ";".join(sorted(entry["Sources"])) raises TypeError when a policy name is
\* None: sorted() cannot compare None with a str, join() rejects a None item
SourcesRaise(entry) == PyNone \in entry.Sources

\* the finalized row of one entry (lines 142-159), when SourcesRaise is false
FinalizeEntry(entry) ==
  LET effective_levels == entry.AllowedLevels \ entry.DeniedLevels
      unique_resources == SeqElems(entry.Resources)
  IN  [Principal |-> entry.Principal, PrincipalType |-> entry.PrincipalType,
       Service |-> entry.Service,
       AccessLevels |-> IF effective_levels # {}
                        THEN Join(SortStrs(effective_levels), ",") ELSE "None",
       ResourceScope |-> ScopeOf(unique_resources),
       HasExplicitDeny |-> entry.HasExplicitDeny,
       Sources |-> Join(SortStrs({n.v : n \in entry.Sources}), ";")]

\* matrix after the loop body on row (lines 117-138)
FoldMatrix(m, row) ==
  LET key == RowKey(row)
      m1 == IF key \in DOMAIN m THEN m
            ELSE [k \in DOMAIN m \cup {key} |-> IF k = key THEN NewEntry(row) ELSE m[k]]
  IN  [m1 EXCEPT ![key] = FoldRow(@, row)]

RECURSIVE FoldAll(_, _)
\* the matrix and key order after the loop over rows (lines 115-138)
FoldAll(st, rows) ==
  IF rows = <<>> THEN st
  ELSE LET row == Head(rows)
           order == IF RowKey(row) \in DOMAIN st.m THEN st.order
                    ELSE Append(st.order, RowKey(row))
       IN  FoldAll([m |-> FoldMatrix(st.m, row), order |-> order], Tail(rows))

\* the finalization loop (lines 140-160) over matrix m with key order:
\* [raised |-> the loop raised TypeError, results |-> the returned list]
FinalizeAll(m, order) ==
  IF \E i \in 1..Len(order) : SourcesRaise(m[order[i]])
  THEN [raised |-> TRUE, results |-> <<>>]
  ELSE [raised |-> FALSE,
        results |-> [i \in 1..Len(order) |-> FinalizeEntry(m[order[i]])]]

\* aggregate_to_matrix(action_details) (lines 114-160)
aggregate_to_matrix(rows) ==
  LET st == FoldAll([m |-> EmptyMatrix, order |-> <<>>], rows)
  IN  FinalizeAll(st.m, st.order)

(***************************************************************************)
(* Specification of a call of aggregate_to_matrix on bounded rows. Each    *)
(* Fold step is one iteration of the loop over action_details; the row it  *)
(* reads is drawn when the loop reaches it, so the rows read so far are a  *)
(* prefix of the argument list.                                            *)
(***************************************************************************)

MaxRows == 2

\* the (Principal, PrincipalType, Service) keys of the rows
RowKeys ==
  {<<JStr("alice"), JStr("User"), <<"s","3">>>>,
   <<JStr("alice"), JStr("Role"), <<"s","3">>>>}

\* rows as parse_policies emits them; an Effect is copied verbatim from the
\* statement, so it may be a spelling other than Allow and Deny, and a policy
\* without PolicyName gives the name None (pol.get("PolicyName"), line 83)
Rows ==
  {[Principal |-> t[1], PrincipalType |-> t[2], Service |-> t[3],
    Effect |-> e, AccessLevel |-> l, Resources |-> r, PolicyName |-> n] :
     t \in RowKeys, e \in {JStr("Allow"), JStr("Deny"), JStr("allow")},
     l \in {"Read", "Write"},
     r \in {JList(<<>>), JList(<<JStr("*")>>), JList(<<JStr("arn1")>>)},
     n \in {JStr("p1"), JStr("p2")}}
  \cup {[Principal |-> JStr("alice"), PrincipalType |-> JStr("User"),
         Service |-> <<"s","3">>, Effect |-> JStr("Allow"), AccessLevel |-> "Read",
         Resources |-> JList(<<JStr("*")>>), PolicyName |-> PyNone]}

AInit ==
  /\ aInput = <<>> /\ aMatrix = EmptyMatrix /\ aOrder = <<>>
  /\ aResult = <<>> /\ aPc = "loop"
  /\ CIdle
  /\ PIdle
  /\ DIdle

Fold ==
  /\ aPc = "loop"
  /\ Len(aInput) < MaxRows
  /\ \E row \in Rows :
       /\ aInput' = Append(aInput, row)
       /\ aMatrix' = FoldMatrix(aMatrix, row)
       /\ aOrder' = IF RowKey(row) \in DOMAIN aMatrix THEN aOrder
                    ELSE Append(aOrder, RowKey(row))
  /\ UNCHANGED <<aResult, aPc, cVars, pVars, dVars>>

Finalize ==
  /\ aPc = "loop"
  /\ LET f == FinalizeAll(aMatrix, aOrder)
     IN  /\ aResult' = f.results
         /\ aPc' = IF f.raised THEN "raised" ELSE "done"
  /\ UNCHANGED <<aInput, aMatrix, aOrder, cVars, pVars, dVars>>

ANext == Fold \/ Finalize

AggSpec == AInit /\ [][ANext]_vars

(***************************************************************************)
(* compare_matrices (drift.py 20-60)                                       *)
(* A matrix is the dict load_matrix_from_s3 builds: key -> CSV row, every  *)
(* field a string. The loop runs over a Python set of keys, whose order    *)
(* depends on string hashing, so the returned list is modelled by the set  *)
(* of its records (one per key at most).                                   *)
(***************************************************************************)

DriftRecord(k, change, day1, day2) ==
  [Principal |-> k[1], PrincipalType |-> k[2], Service |-> k[3],
   ChangeType |-> change, Day1 |-> day1, Day2 |-> day2]

\* f"{AccessLevels} | {ResourceScope} | {HasExplicitDeny}"
Rendered(row) ==
  row.AccessLevels \o " | " \o row.ResourceScope \o " | " \o row.HasExplicitDeny

\* variant that also compares every other field
ChangedWholeRow(row1, row2) == row1 # row2

\* variant that forgets the deny flag
ChangedNoDeny(row1, row2) ==
  row1.AccessLevels # row2.AccessLevels \/ row1.ResourceScope # row2.ResourceScope

\* variant without the field comparison
ChangedAlways(row1, row2) == TRUE

\* the comparison of lines 49-51
Changed(row1, row2) ==
  \/ row1.AccessLevels # row2.AccessLevels
  \/ row1.ResourceScope # row2.ResourceScope
  \/ row1.HasExplicitDeny # row2.HasExplicitDeny

\* variant that iterates over the day1 keys only
AllKeysDay1(day1, day2) == DOMAIN day1

\* all_keys = set(day1.keys()) | set(day2.keys())
AllKeys(day1, day2) == DOMAIN day1 \cup DOMAIN day2

\* the records appended for key k (lines 26-59); CSV rows are non-empty
\* dicts, so a present row is truthy
DriftOf(k, day1, day2) ==
  IF k \in DOMAIN day1 /\ k \notin DOMAIN day2
  THEN {DriftRecord(k, "Removed", day1[k].AccessLevels, "None")}
  ELSE IF k \notin DOMAIN day1 /\ k \in DOMAIN day2
  THEN {DriftRecord(k, "Added", "None", day2[k].AccessLevels)}
  ELSE IF k \in DOMAIN day1 /\ k \in DOMAIN day2 /\ Changed(day1[k], day2[k])
  THEN {DriftRecord(k, "Modified", Rendered(day1[k]), Rendered(day2[k]))}
  ELSE {}

compare_matrices(day1, day2) ==
  UNION {DriftOf(k, day1, day2) : k \in AllKeys(day1, day2)}

(***************************************************************************)
(* Specification of a call of compare_matrices on two bounded matrices     *)
(***************************************************************************)

DriftKeys ==
  {<<"bob", "User", "ec2">>, <<"alice", "User", "s3">>}

\* rows of the service access matrix CSV (HasExplicitDeny written as str(bool))
DriftRows ==
  [AccessLevels : {"Read", "None"}, ResourceScope : {"Scoped", "AllResources"},
   HasExplicitDeny : {"False", "True"}, Sources : {"p1", "p2"}]

Matrices == UNION {[K -> DriftRows] : K \in SUBSET DriftKeys}

DInit ==
  /\ dDay1 \in Matrices /\ dDay2 \in Matrices
  /\ dOut = {} /\ dPc = "call"
  /\ CIdle /\ PIdle /\ AIdle

Compare ==
  /\ dPc = "call"
  /\ dOut' = compare_matrices(dDay1, dDay2)
  /\ dPc' = "done"
  /\ UNCHANGED <<dDay1, dDay2, cVars, pVars, aVars>>

DNext == Compare

DriftSpec == DInit /\ [][DNext]_vars

(***************************************************************************)
(* Specification of the pipeline of lambda_handler (policy-parser.py       *)
(* 181-196) without its storage I/O: parse_policies on one principal       *)
(* record, then aggregate_to_matrix on the records it returned.            *)
(***************************************************************************)

E2EActions == <<JStr("s3:GetObject"), JStr("s3:ListBucket"), JStr("iam:PassRole")>>
E2EResources == <<JStr("*"), JStr("arn1")>>

\* a statement with every key but Condition present
E2EStmtIdx == [e : {"Allow", "Deny"}, a : 1..Len(E2EActions), r : 1..Len(E2EResources)]

E2EStmtOf(ix) ==
  JDict([k \in {"Effect", "Action", "Resource"} |->
           CASE k = "Effect" -> JStr(ix.e)
             [] k = "Action" -> E2EActions[ix.a]
             [] k = "Resource" -> E2EResources[ix.r]])

\* the Statement field: one statement object, or a list of at most MaxStmts
E2EStatementFields ==
  {JDict([k \in {"Statement"} |-> E2EStmtOf(ix)]) : ix \in E2EStmtIdx}
  \cup {JDict([k \in {"Statement"} |->
           JList([i \in 1..Len(l) |-> E2EStmtOf(l[i])])]) :
         l \in UNION {[1..n -> E2EStmtIdx] : n \in 0..MaxStmts}}

\* a policy named p1, or one without PolicyName
E2EPolicies ==
  {JDict([PolicyName |-> JStr("p1"), PolicyType |-> JStr("Inline"),
          PolicyDocument |-> doc]) : doc \in E2EStatementFields}
  \cup {JDict([PolicyType |-> JStr("Inline"), PolicyDocument |-> doc]) :
         doc \in E2EStatementFields}

E2ERecords ==
  {JDict([Principal |-> JStr("alice"), PrincipalType |-> JStr(t),
          Policies |-> JList(<<pol>>)]) :
     t \in {"User", "Role"}, pol \in E2EPolicies}

EInit ==
  /\ pInput \in {<<r>> : r \in E2ERecords}
  /\ pOut = <<>> /\ pErr = "none" /\ pPc = "call"
  /\ aInput = <<>> /\ aMatrix = EmptyMatrix /\ aOrder = <<>>
  /\ aResult = <<>> /\ aPc = "idle"
  /\ CIdle /\ DIdle

\* if not details: return {"status": "No policies found"} (lines 186-187)
NoPolicies ==
  /\ pPc = "done" /\ pErr = "none" /\ aPc = "idle"
  /\ pOut = <<>>
  /\ aPc' = "nopolicies"
  /\ UNCHANGED <<aInput, aMatrix, aOrder, aResult, cVars, pVars, dVars>>

\* matrix = aggregate_to_matrix(details) (line 196) on a non-empty details
Aggregate ==
  /\ pPc = "done" /\ pErr = "none" /\ aPc = "idle"
  /\ pOut # <<>>
  /\ LET st == FoldAll([m |-> EmptyMatrix, order |-> <<>>], pOut)
         f == aggregate_to_matrix(pOut)
     IN  /\ aMatrix' = st.m
         /\ aOrder' = st.order
         /\ aResult' = f.results
         /\ aPc' = IF f.raised THEN "raised" ELSE "done"
  /\ aInput' = pOut
  /\ UNCHANGED <<cVars, pVars, dVars>>

ENext == Parse \/ NoPolicies \/ Aggregate

E2ESpec == EInit /\ [][ENext]_vars

(***************************************************************************)
(* Properties of classify_action                                           *)
(***************************************************************************)

\* the shape <[a-z0-9-]+>:<rest>: a non-empty class run ending at a colon
ShapeMatch(a) ==
  \E k \in 2..Len(a) : a[k] = ":" /\ \A j \in 1..(k-1) : a[j] \in LowerAlnumDash

\* position of the first colon
FirstColon(a) == FirstIn(a, {":"})
ShapeService(a) == SubSeq(a, 1, FirstColon(a) - 1)
ShapeOp(a) == SubSeq(a, FirstColon(a) + 1, Len(a))

\* the rule list of the spec, first match wins, op = everything after the colon
SpecRules(a) ==
  LET s == ShapeService(a)
      op == ShapeOp(a)
  IN  IF a = W_Star THEN <<W_ALL_SERVICES, "Admin">>
      ELSE IF ~ShapeMatch(a) THEN <<W_UNKNOWN, "Unknown">>
      ELSE IF op = W_Star THEN <<s, "Admin">>
      ELSE IF \E p \in {W_Get, W_Head, W_Read} : StartsWith(op, p) THEN <<s, "Read">>
      ELSE IF \E p \in {W_List, W_Describe} : StartsWith(op, p) THEN <<s, "List">>
      ELSE IF \E p \in {W_Create, W_Put, W_Delete, W_Update, W_Start, W_Stop, W_Invoke} :
                StartsWith(op, p) THEN <<s, "Write">>
      ELSE IF \E p \in {W_Tag, W_Untag} : StartsWith(op, p) THEN <<s, "Tagging">>
      ELSE IF \E p \in {W_PassRole, W_Attach, W_Detach, W_CreatePolicy, W_PutPolicy,
                         W_SetPolicy, W_AddUserToGroup, W_RemoveUserFromGroup} :
                StartsWith(op, p) THEN <<s, "PermissionsManagement">>
      ELSE <<s, "Read">>

\* C1: classify_action returns the result of the first matching rule of the
\* fixed rule list, with op the whole text after the first colon.
C1_FirstMatchWins == cPc = "done" => cResult = SpecRules(cAction)

\* C2 (as claimed): every string not of the shape <[a-z0-9-]+>:<rest> yields
\* (UNKNOWN, Unknown).
C2_UnparseableIsUnknown ==
  (cPc = "done" /\ ~ShapeMatch(cAction)) => cResult = <<W_UNKNOWN, "Unknown">>

\* C2 (amended): every string other than the literal "*" that is not of the
\* shape <[a-z0-9-]+>:<rest> yields (UNKNOWN, Unknown).
C2_UnparseableIsUnknownExceptStar ==
  (cPc = "done" /\ ~ShapeMatch(cAction) /\ cAction # W_Star)
    => cResult = <<W_UNKNOWN, "Unknown">>

C2_Witness ==
  /\ cPc = "done" /\ cAction = <<"S", ":">> \o W_GetObject
  /\ cResult = <<W_UNKNOWN, "Unknown">>

\* C3: an op starting with CreatePolicy or PutPolicy is Write, never
\* PermissionsManagement; PassRole... is PermissionsManagement, GetObject is
\* Read, ListBucket is List.
C3_WriteShadowsPerm ==
  (cPc = "done" /\ ShapeMatch(cAction)) =>
    LET s == ShapeService(cAction)
        op == ShapeOp(cAction)
    IN  /\ (StartsWith(op, W_CreatePolicy) \/ StartsWith(op, W_PutPolicy))
             => cResult = <<s, "Write">>
        /\ StartsWith(op, W_PassRole) => cResult = <<s, "PermissionsManagement">>
        /\ op = W_GetObject => cResult = <<s, "Read">>
        /\ op = W_ListBucket => cResult = <<s, "List">>

C3_Witness ==
  /\ cPc = "done"
  /\ cAction = <<"s","3",":">> \o W_PutPolicy
  /\ cResult = <<<<"s","3">>, "Write">>

(***************************************************************************)
(* Properties of parse_policies                                            *)
(***************************************************************************)

\* the statements of a policy as the spec describes them: a single object
\* is a one-element list
ClaimStmts(pol) ==
  LET doc == IF "PolicyDocument" \in DOMAIN pol.v THEN pol.v["PolicyDocument"]
             ELSE JDict(EmptyDict)
      st == IF "Statement" \in DOMAIN doc.v THEN doc.v["Statement"] ELSE JList(<<>>)
  IN  IF st.t = "dict" THEN <<st>> ELSE st.v

\* the actions of a statement: a bare string is a one-element list, an
\* absent Action is empty
ClaimActs(st) ==
  IF "Action" \notin DOMAIN st.v THEN <<>>
  ELSE IF st.v["Action"].t = "str" THEN <<st.v["Action"]>>
  ELSE st.v["Action"].v

ClaimPolicies(rec) ==
  IF "Policies" \in DOMAIN rec.v THEN rec.v["Policies"].v ELSE <<>>

\* the (record, policy, statement, action) tuples in statement-then-action order
ClaimPairs ==
  LET StPairs(rec, pol, st) ==
        [j \in 1..Len(ClaimActs(st)) |->
           [rec |-> rec, pol |-> pol, st |-> st, act |-> ClaimActs(st)[j]]]
      PolPairs(rec, pol) ==
        Flatten([i \in 1..Len(ClaimStmts(pol)) |-> StPairs(rec, pol, ClaimStmts(pol)[i])])
      RecPairs(rec) ==
        Flatten([i \in 1..Len(ClaimPolicies(rec)) |-> PolPairs(rec, ClaimPolicies(rec)[i])])
  IN  Flatten([i \in 1..Len(pInput) |-> RecPairs(pInput[i])])

\* C4: one record per (statement, action) pair, in statement-then-action
\* order, carrying the principal, principal type, policy name/type, effect,
\* action, its classification, the resources and the condition.
C4_OneRecordPerStatementAction ==
  (pPc = "done" /\ pErr = "none") =>
    /\ Len(pOut) = Len(ClaimPairs)
    /\ \A k \in 1..Len(pOut) :
         LET q == ClaimPairs[k]
             r == pOut[k]
         IN  /\ r.Principal = q.rec.v["Principal"]
             /\ r.PrincipalType = q.rec.v["PrincipalType"]
             /\ r.PolicyName = q.pol.v["PolicyName"]
             /\ r.PolicyType = q.pol.v["PolicyType"]
             /\ r.Effect = Get(q.st, "Effect", JStr("Allow"))
             /\ r.Action = q.act
             /\ <<r.Service, r.AccessLevel>> = classify_action(ActionChars[q.act.v])
             /\ r.Resources = (IF "Resource" \notin DOMAIN q.st.v
                                THEN JList(<<JStr("*")>>)
                                ELSE IF q.st.v["Resource"].t = "str"
                                THEN JList(<<q.st.v["Resource"]>>)
                                ELSE q.st.v["Resource"])
             /\ r.Condition = Get(q.st, "Condition", JDict(EmptyDict))

\* a single statement object with a bare-string Action and a list of two
\* statements both produce their records
C4_Witness ==
  /\ pPc = "done" /\ pErr = "none"
  /\ Len(pOut) = 3
  /\ Len(ClaimStmts(ClaimPolicies(pInput[1])[1])) = 2
  /\ \E k \in 1..3 : pOut[k].Action = JStr("s3:GetObject")

\* C5: a missing Effect gives Allow, a missing Resource ["*"], a bare-string
\* Resource a one-element list, a missing Condition an empty dict; a
\* statement with an empty or absent Action gives no record; no exception is
\* raised when the principal envelope is present.
C5_DefaultsDegrade ==
  pPc = "done" =>
    /\ (\A i \in 1..Len(pInput) :
          {"Principal", "PrincipalType"} \subseteq DOMAIN pInput[i].v) => pErr = "none"
    /\ pErr = "none" =>
         /\ Len(pOut) = Len(ClaimPairs)
         /\ \A k \in 1..Len(pOut) :
              LET st == ClaimPairs[k].st
                  r == pOut[k]
              IN  /\ "Effect" \notin DOMAIN st.v => r.Effect = JStr("Allow")
                  /\ "Resource" \notin DOMAIN st.v => r.Resources = JList(<<JStr("*")>>)
                  /\ ("Resource" \in DOMAIN st.v /\ st.v["Resource"].t = "str")
                       => r.Resources = JList(<<st.v["Resource"]>>)
                  /\ "Condition" \notin DOMAIN st.v => r.Condition = JDict(EmptyDict)

\* a statement with every field absent next to one with only a bare-string
\* Action and Resource
C5_Witness ==
  /\ pPc = "done" /\ pErr = "none"
  /\ Len(pOut) = 1
  /\ pOut[1].Effect = JStr("Allow")
  /\ pOut[1].Resources = JList(<<JStr("arn1")>>)
  /\ pOut[1].Condition = JDict(EmptyDict)
  /\ ClaimStmts(ClaimPolicies(pInput[1])[1]) =
       <<JDict(EmptyDict),
         JDict([k \in {"Action", "Resource"} |->
                  IF k = "Action" THEN JStr("s3:GetObject") ELSE JStr("arn1")])>>

\* C6 (as claimed): a principal record whose identity is absent or whose type
\* is not User, Group or Role makes parse_policies report an error.
C6_EnvelopeRejected ==
  (pPc = "done" /\
   \E i \in 1..Len(pInput) :
      \/ "Principal" \notin DOMAIN pInput[i].v
      \/ "PrincipalType" \notin DOMAIN pInput[i].v
      \/ pInput[i].v["PrincipalType"] \notin {JStr("User"), JStr("Group"), JStr("Role")})
  => pErr # "none"

(***************************************************************************)
(* Properties of aggregate_to_matrix                                       *)
(***************************************************************************)

\* the (Principal, PrincipalType, Service) triples of the rows read
InputTriples == {<<aInput[i].Principal, aInput[i].PrincipalType, aInput[i].Service>> :
                   i \in 1..Len(aInput)}

EntryTriple(e) == <<e.Principal, e.PrincipalType, e.Service>>

\* the rows read for the triple t
RowsOf(t) == {i \in 1..Len(aInput) :
                <<aInput[i].Principal, aInput[i].PrincipalType, aInput[i].Service>> = t}

\* C7: one entry per distinct triple of the input and no other; the output
\* is empty iff the input is.
C7_OneEntryPerTriple ==
  aPc = "done" =>
    /\ {EntryTriple(aResult[i]) : i \in 1..Len(aResult)} = InputTriples
    /\ \A i, j \in 1..Len(aResult) :
         EntryTriple(aResult[i]) = EntryTriple(aResult[j]) => i = j
    /\ (aResult = <<>>) <=> (aInput = <<>>)

C7_Witness ==
  aPc = "done" /\ Len(aInput) = 2 /\ Len(aResult) = 2
  /\ aResult[1].Service = aResult[2].Service

\* C8: the effective set is the Allow levels minus the Deny levels of the
\* key; AccessLevels joins it with "," in increasing order, or is "None".
C8_EffectiveLevels ==
  aPc = "done" =>
    \A i \in 1..Len(aResult) :
      LET t == EntryTriple(aResult[i])
          A == {aInput[j].AccessLevel : j \in {j2 \in RowsOf(t) : aInput[j2].Effect = JStr("Allow")}}
          D == {aInput[j].AccessLevel : j \in {j2 \in RowsOf(t) : aInput[j2].Effect = JStr("Deny")}}
          E == A \ D
      IN  IF E = {} THEN aResult[i].AccessLevels = "None"
          ELSE \E f \in [1..Cardinality(E) -> E] :
                 /\ \A x \in E : \E k \in 1..Cardinality(E) : f[k] = x
                 /\ \A k \in 1..(Cardinality(E) - 1) : StrLt(f[k], f[k + 1])
                 /\ aResult[i].AccessLevels = Join(f, ",")

\* a level both allowed and denied is absent
C8_Witness ==
  /\ aPc = "done" /\ Len(aResult) = 1 /\ Len(aInput) = 2
  /\ aInput[1].Effect = JStr("Deny") /\ aInput[2].Effect = JStr("Allow")
  /\ aInput[1].AccessLevel = aInput[2].AccessLevel
  /\ aResult[1].AccessLevels = "None"

\* C9: with U the set of resources of all rows of the key, ResourceScope is
\* AllResources iff U = {"*"}, Mixed iff "*" in U and |U| > 1, Scoped iff
\* "*" is not in U.
C9_ResourceScope ==
  aPc = "done" =>
    \A i \in 1..Len(aResult) :
      LET U == UNION {SeqElems(aInput[j].Resources.v) : j \in RowsOf(EntryTriple(aResult[i]))}
      IN  /\ aResult[i].ResourceScope = "AllResources" <=> U = {JStr("*")}
          /\ aResult[i].ResourceScope = "Mixed" <=> (JStr("*") \in U /\ Cardinality(U) > 1)
          /\ aResult[i].ResourceScope = "Scoped" <=> JStr("*") \notin U

C9_Witness ==
  aPc = "done" /\ Len(aResult) = 1 /\ aResult[1].ResourceScope = "Mixed"

\* C10: during the loop the flag of a key is true iff a Deny row of the key
\* has been read (so it is never reset), and so in the finalized entry.
C10_DenyFlagMonotonic ==
  /\ \A k \in DOMAIN aMatrix :
       aMatrix[k].HasExplicitDeny <=> \E j \in RowsOf(k) : aInput[j].Effect = JStr("Deny")
  /\ aPc = "done" =>
       \A i \in 1..Len(aResult) :
         aResult[i].HasExplicitDeny <=>
           \E j \in RowsOf(EntryTriple(aResult[i])) : aInput[j].Effect = JStr("Deny")

\* an Allow row after a Deny row of the same key leaves the flag set
C10_Witness ==
  /\ aPc = "done" /\ Len(aResult) = 1 /\ Len(aInput) = 2
  /\ aInput[1].Effect = JStr("Deny") /\ aInput[2].Effect = JStr("Allow")
  /\ aResult[1].HasExplicitDeny

\* the bijections of 1..n
Perms(n) == {f \in [1..n -> 1..n] : \A i \in 1..n : \E j \in 1..n : f[j] = i}

\* C11: every permutation of the rows yields the same set of finalized
\* entries (AccessLevels, ResourceScope, HasExplicitDeny, Sources per key).
C11_OrderIndependent ==
  aPc = "done" =>
    \A f \in Perms(Len(aInput)) :
      LET out == aggregate_to_matrix([i \in 1..Len(aInput) |-> aInput[f[i]]])
      IN  ~out.raised /\ SeqElems(out.results) = SeqElems(aResult)

\* two rows of one key, a Deny then an Allow from different policies
C11_Witness ==
  /\ aPc = "done" /\ Len(aInput) = 2 /\ Len(aResult) = 1
  /\ aInput[1].Effect = JStr("Deny") /\ aInput[2].Effect = JStr("Allow")
  /\ aInput[1].AccessLevel # aInput[2].AccessLevel
  /\ aInput[1].PolicyName # aInput[2].PolicyName

\* C12: every row read for a key adds its resources and its policy name to
\* the key's entry whatever its effect; Sources joins the names with ";" in
\* increasing order.
C12_ResourcesAndSourcesAnyEffect ==
  /\ \A k \in DOMAIN aMatrix :
       /\ SeqElems(aMatrix[k].Resources) =
            UNION {SeqElems(aInput[j].Resources.v) : j \in RowsOf(k)}
       /\ aMatrix[k].Sources = {aInput[j].PolicyName : j \in RowsOf(k)}
  /\ aPc = "done" =>
       \A i \in 1..Len(aResult) :
         LET N == {aInput[j].PolicyName.v : j \in RowsOf(EntryTriple(aResult[i]))}
         IN  \E f \in [1..Cardinality(N) -> N] :
               /\ \A x \in N : \E k \in 1..Cardinality(N) : f[k] = x
               /\ \A k \in 1..(Cardinality(N) - 1) : StrLt(f[k], f[k + 1])
               /\ aResult[i].Sources = Join(f, ";")

\* a Deny row from p2 and an Allow row from p1 for one key
C12_Witness ==
  /\ aPc = "done" /\ Len(aInput) = 2 /\ Len(aResult) = 1
  /\ aInput[1].Effect = JStr("Deny") /\ aInput[1].PolicyName = JStr("p2")
  /\ aInput[1].Resources = JList(<<JStr("arn1")>>)
  /\ aResult[1].Sources = "p1;p2"

\* C17: a row whose Effect is neither "Allow" nor "Deny" adds no level and
\* does not set the deny flag, but creates the entry and adds its resources
\* and policy name; a key with only such rows has AccessLevels "None".
C17_OtherEffectIgnored ==
  /\ \A k \in DOMAIN aMatrix :
       /\ aMatrix[k].AllowedLevels =
            {aInput[j].AccessLevel : j \in {j2 \in RowsOf(k) : aInput[j2].Effect = JStr("Allow")}}
       /\ aMatrix[k].DeniedLevels =
            {aInput[j].AccessLevel : j \in {j2 \in RowsOf(k) : aInput[j2].Effect = JStr("Deny")}}
       /\ aMatrix[k].HasExplicitDeny => \E j \in RowsOf(k) : aInput[j].Effect = JStr("Deny")
       /\ SeqElems(aMatrix[k].Resources) =
            UNION {SeqElems(aInput[j].Resources.v) : j \in RowsOf(k)}
       /\ aMatrix[k].Sources = {aInput[j].PolicyName : j \in RowsOf(k)}
  /\ aPc = "done" =>
       \A t \in InputTriples :
         (\A j \in RowsOf(t) : aInput[j].Effect \notin {JStr("Allow"), JStr("Deny")})
           => \E i \in 1..Len(aResult) :
                /\ EntryTriple(aResult[i]) = t
                /\ aResult[i].AccessLevels = "None"
                /\ ~aResult[i].HasExplicitDeny

\* a key fed by one "allow" row only
C17_Witness ==
  /\ aPc = "done" /\ Len(aInput) >= 1 /\ Len(aResult) >= 1
  /\ aInput[1].Effect = JStr("allow")
  /\ aResult[1].AccessLevels = "None" /\ aResult[1].Sources # ""
  /\ aResult[1].ResourceScope = "AllResources"
  /\ RowsOf(EntryTriple(aResult[1])) = {1}

(***************************************************************************)
(* Properties of compare_matrices                                          *)
(***************************************************************************)

RecKey(r) == <<r.Principal, r.PrincipalType, r.Service>>

DriftAt(out, k) == {r \in out : RecKey(r) = k}

\* C13: per key of the union, Removed (Day1 = AccessLevels, Day2 = "None")
\* if only in day1, Added if only in day2, Modified with the pipe-joined
\* triples if in both and levels, scope or deny flag differ, else nothing.
C13_DriftRecords ==
  dPc = "done" =>
    /\ \A r \in dOut : RecKey(r) \in DOMAIN dDay1 \cup DOMAIN dDay2
    /\ \A k \in DOMAIN dDay1 \cup DOMAIN dDay2 :
         LET base == [Principal |-> k[1], PrincipalType |-> k[2], Service |-> k[3]]
         IN  CASE k \in DOMAIN dDay1 /\ k \notin DOMAIN dDay2 ->
                    DriftAt(dOut, k) = {base @@ [ChangeType |-> "Removed",
                                         Day1 |-> dDay1[k].AccessLevels, Day2 |-> "None"]}
               [] k \notin DOMAIN dDay1 /\ k \in DOMAIN dDay2 ->
                    DriftAt(dOut, k) = {base @@ [ChangeType |-> "Added",
                                         Day1 |-> "None", Day2 |-> dDay2[k].AccessLevels]}
               [] OTHER ->
                    IF \E f \in {"AccessLevels", "ResourceScope", "HasExplicitDeny"} :
                         dDay1[k][f] # dDay2[k][f]
                    THEN DriftAt(dOut, k) =
                           {base @@ [ChangeType |-> "Modified",
                             Day1 |-> dDay1[k].AccessLevels \o " | " \o dDay1[k].ResourceScope
                                      \o " | " \o dDay1[k].HasExplicitDeny,
                             Day2 |-> dDay2[k].AccessLevels \o " | " \o dDay2[k].ResourceScope
                                      \o " | " \o dDay2[k].HasExplicitDeny]}
                    ELSE DriftAt(dOut, k) = {}

\* bob/User/ec2 only on day 1, and alice/User/s3 whose deny flag alone flips
C13_Witness ==
  /\ dPc = "done"
  /\ [ChangeType |-> "Removed", Day1 |-> "Read", Day2 |-> "None",
      Principal |-> "bob", PrincipalType |-> "User", Service |-> "ec2"] \in dOut
  /\ <<"alice", "User", "s3">> \in DOMAIN dDay1 \cap DOMAIN dDay2
  /\ dDay1[<<"alice", "User", "s3">>].HasExplicitDeny = "False"
  /\ dDay2[<<"alice", "User", "s3">>].HasExplicitDeny = "True"
  /\ dDay1[<<"alice", "User", "s3">>].AccessLevels = dDay2[<<"alice", "User", "s3">>].AccessLevels
  /\ dDay1[<<"alice", "User", "s3">>].ResourceScope = dDay2[<<"alice", "User", "s3">>].ResourceScope
  /\ \E r \in dOut : r.ChangeType = "Modified"

\* C14: comparing (B, A) gives the same keys as (A, B), Added and Removed
\* swapped, and the same Modified keys.
C14_SwapSymmetric ==
  dPc = "done" =>
    LET back == compare_matrices(dDay2, dDay1)
    IN  /\ {RecKey(r) : r \in dOut} = {RecKey(r) : r \in back}
        /\ {RecKey(r) : r \in {x \in dOut : x.ChangeType = "Added"}} =
             {RecKey(r) : r \in {x \in back : x.ChangeType = "Removed"}}
        /\ {RecKey(r) : r \in {x \in dOut : x.ChangeType = "Removed"}} =
             {RecKey(r) : r \in {x \in back : x.ChangeType = "Added"}}
        /\ {RecKey(r) : r \in {x \in dOut : x.ChangeType = "Modified"}} =
             {RecKey(r) : r \in {x \in back : x.ChangeType = "Modified"}}

C14_Witness ==
  /\ dPc = "done"
  /\ \E r \in dOut : r.ChangeType = "Added"
  /\ \E r \in dOut : r.ChangeType = "Removed"

\* C15: comparing a matrix with itself yields no record.
C15_SelfCompareEmpty ==
  (dPc = "done" /\ dDay1 = dDay2) => dOut = {}

C15_Witness ==
  dPc = "done" /\ dDay1 = dDay2 /\ DOMAIN dDay1 = DriftKeys

\* C18: a key in both matrices whose levels, scope and deny flag agree gives
\* no record, whatever its Sources or other fields.
C18_SourcesIgnored ==
  dPc = "done" =>
    \A k \in DOMAIN dDay1 \cap DOMAIN dDay2 :
      (/\ dDay1[k].AccessLevels = dDay2[k].AccessLevels
       /\ dDay1[k].ResourceScope = dDay2[k].ResourceScope
       /\ dDay1[k].HasExplicitDeny = dDay2[k].HasExplicitDeny)
        => DriftAt(dOut, k) = {}

C18_Witness ==
  /\ dPc = "done"
  /\ \E k \in DOMAIN dDay1 \cap DOMAIN dDay2 :
       /\ dDay1[k].Sources # dDay2[k].Sources
       /\ dDay1[k].AccessLevels = dDay2[k].AccessLevels
       /\ dDay1[k].ResourceScope = dDay2[k].ResourceScope
       /\ dDay1[k].HasExplicitDeny = dDay2[k].HasExplicitDeny

(***************************************************************************)
(* Properties of the pipeline                                              *)
(***************************************************************************)

\* alice (User) with one policy holding one Allow statement for
\* s3:GetObject on resource "*"
AliceScenario ==
  LET rec == pInput[1].v
      st0 == rec["Policies"].v[1].v["PolicyDocument"].v["Statement"]
      sts == IF st0.t = "dict" THEN <<st0>> ELSE st0.v
  IN  /\ rec["Principal"] = JStr("alice") /\ rec["PrincipalType"] = JStr("User")
      /\ Len(rec["Policies"].v) = 1
      /\ "PolicyName" \in DOMAIN rec["Policies"].v[1].v
      /\ Len(sts) = 1
      /\ sts[1].v["Effect"] = JStr("Allow")
      /\ sts[1].v["Action"] = JStr("s3:GetObject")
      /\ sts[1].v["Resource"] = JStr("*")

\* C16: the alice scenario aggregates to exactly one entry (alice, User, s3)
\* with AccessLevels "Read", ResourceScope "AllResources", no explicit deny.
C16_AliceEndToEnd ==
  (aPc \in {"done", "raised", "nopolicies"} /\ Len(pInput) = 1 /\ AliceScenario) =>
    /\ aPc = "done"
    /\ Len(aResult) = 1
    /\ aResult[1].Principal = JStr("alice")
    /\ aResult[1].PrincipalType = JStr("User")
    /\ aResult[1].Service = <<"s","3">>
    /\ aResult[1].AccessLevels = "Read"
    /\ aResult[1].ResourceScope = "AllResources"
    /\ aResult[1].HasExplicitDeny = FALSE

C16_Witness ==
  aPc = "done" /\ Len(pInput) = 1 /\ AliceScenario /\ Len(aResult) = 1

====
